---- MODULE Spec2Model ----
(***************************************************************************)
(* A model of pywapor's two model entry points, et_look.main and            *)
(* se_root.main: the input container, the placeholder mechanism for missing *)
(* fields, the fixed sequence of evaluation steps, the selection of the     *)
(* output variables and the export.                                         *)
(*                                                                          *)
(* A field of the container is abstracted to how it came to be there:       *)
(*   "input"   data supplied by the caller,                                 *)
(*   "object"  the placeholder (dtype object) of a field that is missing or *)
(*             whose computation was skipped,                               *)
(*   "derived" the result of an evaluation step,                            *)
(*   "100", "1", "3", "0.001"  a constant written by main itself.           *)
(* The coordinates x, y and time belong to the grid and are always there.   *)
(***************************************************************************)
EXTENDS Integers, Sequences, FiniteSets, TLC

VARIABLES
    prog,          \* "et_look" or "se_root": which main is running
    version,       \* et_look_version / se_root_version
    export_vars,   \* the export_vars argument
    input_data,    \* names of the fields the input container holds
    ds,            \* the container: field name -> abstract value
    pc,            \* position of main: "begin", "eval", "select", "export", "done"
    idx,           \* index of the next evaluation step
    log,           \* messages given to log.info, in order
    raised,        \* the exception main ended with, or "none"
    returned,      \* what main returned
    file_out,      \* TRUE once save_ds has written the output file
    written,       \* history: fields assigned by evaluation steps so far
    reads,         \* history: fields read by evaluation steps so far
    early,         \* history: fields first assigned after an earlier step read them
    computed,      \* history: fields for which an evaluation step produced a value
    substituted,   \* history: the default substitutions made
    run,           \* 1 in the first call of main, 2 in a repeated call
    files,         \* the output files on disk
    first,         \* what the first call returned, once main is called again
    cell,          \* SENTINEL2: one cell of the scene, variable name -> value
    warned,        \* SENTINEL2: the indices reported as not calculated
    surface,       \* solver: "canopy" (transpiration) or "soil" (evaporation)
    given,         \* solver: the arguments of the call
    spc,           \* solver: "idle", "call", "loop" or "done"
    conv,          \* solver: the convergence state of the loop
    temps,         \* se_root at one cell: lst_max, lst and lst_min
    sat,           \* se_root at one cell: the value of se_root
    sources,       \* collect_sources: variable -> its list of products
    reversed_sources, \* collect_sources: the products in order, each with its variables
    attempts,      \* collect_sources: product -> attempts counted
    dss,           \* collect_sources: the products with a collected dataset
    cpc,           \* collect_sources: "idle", "start", "while", "for", "returned", "raised"
    queue,         \* collect_sources: the products the running pass has still to try
    calls,         \* history: product -> number of calls of its downloader
    succeeded,     \* history: the products whose downloader has returned
    trim_given,    \* trim_sources: its two arguments as passed
    trim_now,      \* trim_sources: the sources dictionary as trimmed so far
    trim_rest,     \* trim_sources: the products of reversed_sources still to do
    tpc,           \* trim_sources: "idle", "loop", "returned" or the exception raised
    tiles_given,   \* check_tiles: the year/doy/time list as passed
    year_doy_time, \* check_tiles: the list, changed in place
    dropped,       \* check_tiles: the entries dropped so far
    pos,           \* check_tiles: the index the list iterator of the for loop is at
    few_pixels,    \* check_tiles: the tiles with fewer than 100 pixels inside the buffered area
    one_file,      \* check_tiles: the tiles for which workdir holds exactly one file
    kpc,           \* check_tiles: "idle", "loop", "returned" or the exception raised
    workdir,       \* regrid_VNP: timestamp -> the number of VNP03IMG and of cloud-mask files for it
    ncs02,         \* regrid_VNP: the VNP02IMG files still to look at, by timestamp
    scenes,        \* regrid_VNP: the timestamps in the inventory
    rpc,           \* regrid_VNP: "idle", "loop", "done" or the exception raised
    folder,        \* download: downloader -> the variables of its product file, or NoFile
    last,          \* download: the last call, its req_vars, the file it found and what it returned
    downloads      \* history: the number of calls of download so far

\* the state of et_look.main and se_root.main
mainVars == <<prog, version, export_vars, input_data, ds, pc, idx, log, raised, returned,
              file_out, written, reads, early, computed, substituted, run, files, first>>

\* the state of the index formulas of collect.product.SENTINEL2
indexVars == <<cell, warned>>

\* the state of the iterative stability solver
solverVars == <<surface, given, spc, conv>>

\* the state of the saturation index at one cell
satVars == <<temps, sat>>

\* the state of collect_sources
collectVars == <<sources, reversed_sources, attempts, dss, cpc, queue, calls, succeeded>>

\* the state of trim_sources called on its own
trimVars == <<trim_given, trim_now, trim_rest, tpc>>

\* the state of check_tiles
tilesVars == <<tiles_given, year_doy_time, dropped, pos, few_pixels, one_file, kpc>>

\* the state of the inventory of regrid_VNP
regridVars == <<workdir, ncs02, scenes, rpc>>

\* the state of the product files of the downloaders
downloadVars == <<folder, last, downloads>>

\* everything main does not touch
otherVars == <<indexVars, solverVars, satVars, collectVars, trimVars, tilesVars, regridVars, downloadVars>>

\* everything each of the other parts does not touch
exceptIndexVars == <<mainVars, solverVars, satVars, collectVars, trimVars, tilesVars, regridVars, downloadVars>>
exceptSolverVars == <<mainVars, indexVars, satVars, collectVars, trimVars, tilesVars, regridVars, downloadVars>>
exceptSatVars == <<mainVars, indexVars, solverVars, collectVars, trimVars, tilesVars, regridVars, downloadVars>>
exceptCollectVars == <<mainVars, indexVars, solverVars, satVars, trimVars, tilesVars, regridVars, downloadVars>>
exceptTrimVars == <<mainVars, indexVars, solverVars, satVars, collectVars, tilesVars, regridVars, downloadVars>>
exceptTilesVars == <<mainVars, indexVars, solverVars, satVars, collectVars, trimVars, regridVars, downloadVars>>
exceptRegridVars == <<mainVars, indexVars, solverVars, satVars, collectVars, trimVars, tilesVars, downloadVars>>
exceptDownloadVars == <<mainVars, indexVars, solverVars, satVars, collectVars, trimVars, tilesVars, regridVars>>

vars == <<mainVars, otherVars>>

\* no scene is being processed
IndexIdle == cell = << >> /\ warned = {}

NoConv == [iteration |-> 0, h |-> 0, u_star |-> 0, L |-> 0, flux |-> 0]

\* the solver is not running
SolverIdle ==
    /\ surface = "canopy"
    /\ given = [rn |-> 0, flux_init |-> 0, u_star_init |-> 0, iter_h |-> 0]
    /\ spc = "idle"
    /\ conv = NoConv

\* no saturation index is being computed
SatIdle == temps = << >> /\ sat = [k |-> "unset", num |-> 0, den |-> 1]

\* collect_sources is not running
CollectIdle ==
    /\ sources = << >>
    /\ reversed_sources = << >>
    /\ attempts = << >>
    /\ dss = {}
    /\ cpc = "idle"
    /\ queue = << >>
    /\ calls = << >>
    /\ succeeded = {}

\* trim_sources is not running
TrimIdle ==
    /\ trim_given = << >>
    /\ trim_now = << >>
    /\ trim_rest = << >>
    /\ tpc = "idle"

\* check_tiles is not running
TilesIdle ==
    /\ tiles_given = << >>
    /\ year_doy_time = << >>
    /\ dropped = << >>
    /\ pos = 0
    /\ few_pixels = {}
    /\ one_file = {}
    /\ kpc = "idle"

\* regrid_VNP is not running
RegridIdle ==
    /\ workdir = << >>
    /\ ncs02 = << >>
    /\ scenes = {}
    /\ rpc = "idle"

\* no download has been asked for
DownloadIdle ==
    /\ folder = << >>
    /\ last = << >>
    /\ downloads = 0

----------------------------------------------------------------------------
(* Bounds of the model. *)

\* input containers lacking at most this many of the input fields are explored
MaxMissing == 1

\* input containers holding at most this many of the input fields are explored
MaxPresent == 0

----------------------------------------------------------------------------
(* Evaluation steps.  Every statement of main that assigns a field is one   *)
(* step record: the source line, the kind of statement, the field written,  *)
(* the fields read and the constant written (if any).                       *)

\* ds[w] = ETLook.<module>.<function>(ds[r1], ds[r2], ...), a decorated formula
LEvaporationReadsCanopyFlux(line, w, r) ==
    [line |-> line, kind |-> "lazy", w |-> w,
     r |-> IF w = "e_24" THEN r \cup {"h_canopy_24_init"} ELSE r, c |-> ""]

L(line, w, r) == [line |-> line, kind |-> "lazy", w |-> w, r |-> r, c |-> ""]

\* if ds[w].dtype == object: ds[w] = c; log.info(...)
S(line, w, c) == [line |-> line, kind |-> "subst", w |-> w, r |-> {w}, c |-> c]

\* ds[w] = ds["lai"].copy(data = np.zeros(ds["lai"].shape) + c)
K(line, w, r, c) == [line |-> line, kind |-> "const", w |-> w, r |-> r, c |-> c]

\* if ds[w].dtype == object: ds[w] = ETLook.<module>.<function>(...)
M(line, w, r) == [line |-> line, kind |-> "lazy_if_missing", w |-> w, r |-> r \cup {w}, c |-> ""]

\* if not ds[r1].dtype == object and not ds[r2].dtype == object: ds[w] = <expression>
P(line, w, r) == [line |-> line, kind |-> "if_present", w |-> w, r |-> r, c |-> ""]

\* ds[w] = <expression of coordinates or attributes only>
T(line, w, r) == [line |-> line, kind |-> "direct", w |-> w, r |-> r, c |-> ""]
A(line, w) == [line |-> line, kind |-> "direct", w |-> w, r |-> {}, c |-> ""]

\* ds[w] = lst_zone_mean(ds)
Z(line, w, r) == [line |-> line, kind |-> "zone_mean", w |-> w, r |-> r, c |-> ""]

\* ds[w] = xr.where(ds[w] < -270, np.nan, ds[w])
W(line, w, r) == [line |-> line, kind |-> "where", w |-> w, r |-> r, c |-> ""]

EtLookDefaultsRsMin10 ==
 <<
    S(63, "rs_min", "10"),
    S(67, "land_mask", "1"),
    S(71, "z_obst_max", "3")
 >>

EtLookDefaults ==
 <<
    S(63, "rs_min", "100"),
    S(67, "land_mask", "1"),
    S(71, "z_obst_max", "3")
 >>

EtLookHead ==
 <<
    L(75, "decl", {"doy"}),
    L(76, "iesd", {"doy"}),
    K(78, "z_obs", {"lai"}, "100"),
    K(79, "z_b", {"lai"}, "100"),
    L(86, "lai_eff", {"lai"}),
    L(91, "sf_soil", {"lai"}),
    L(94, "lat_rad", {"y"}),
    L(95, "ws", {"lat_rad", "decl"}),
    L(97, "ra_toa_flat_24", {"decl", "iesd", "lat_rad", "ws"}),
    L(100, "trans_24", {"ra_flat_24", "ra_toa_flat_24"}),
    L(111, "stress_rad", {"ra_24"})
 >>

EtLookV2 ==
 <<
    L(123, "svp_24", {"t_air_24"})
 >>

EtLookV3 ==
 <<
    L(125, "svp_24_min", {"t_air_min_24"}),
    L(126, "svp_24_max", {"t_air_max_24"}),
    L(127, "svp_24", {"svp_24_max", "svp_24_min"})
 >>

EtLookStress ==
 <<
    L(129, "vpd_24", {"svp_24", "vp_24"}),
    L(130, "stress_vpd", {"vpd_24", "vpd_slope"}),
    L(132, "stress_temp", {"t_air_24", "t_opt"}),
    L(135, "r_canopy_0", {"lai_eff", "stress_rad", "stress_vpd", "stress_temp"}),
    L(138, "t_air_k_24", {"t_air_24"}),
    L(140, "l_net", {"t_air_k_24", "vp_24", "trans_24", "lw_slope", "lw_offset"}),
    L(142, "int_mm", {"p_24", "vc", "lai"}),
    L(143, "lh_24", {"t_air_24"}),
    L(144, "int_wm2", {"int_mm", "lh_24"}),
    L(145, "rn_24", {"r0", "ra_24", "l_net", "int_wm2"}),
    L(146, "rn_24_canopy", {"rn_24", "sf_soil"}),
    L(150, "stress_moist", {"se_root"}),
    L(151, "r_canopy", {"r_canopy_0", "stress_moist"})
 >>

EtLookRoughnessDefaultAfterUse ==
 <<
    L(161, "z0m", {"lai", "z_oro", "z_obst", "z_obst_max", "land_mask"}),
    S(154, "z_oro", "0.001")
 >>

EtLookRoughness ==
 <<
    S(154, "z_oro", "0.001"),
    L(161, "z0m", {"lai", "z_oro", "z_obst", "z_obst_max", "land_mask"})
 >>

EtLookWindSpeedAfterUse ==
 <<
    L(164, "ra_canopy_init", {"u_24", "z0m", "z_obs"}),
    M(162, "u_24", {"u2m_24", "v2m_24"})
 >>

EtLookWind ==
 <<
    M(162, "u_24", {"u2m_24", "v2m_24"}),
    L(164, "ra_canopy_init", {"u_24", "z0m", "z_obs"})
 >>

EtLookFluxes ==
 <<
    L(167, "u_b_24", {"u_24", "z_obs", "z_b"}),
    L(170, "ad_dry_24", {"p_air_24", "vp_24", "t_air_k_24"}),
    L(171, "ad_moist_24", {"vp_24", "t_air_k_24"}),
    L(172, "ad_24", {"ad_dry_24", "ad_moist_24"}),
    L(173, "psy_24", {"p_air_24", "lh_24"}),
    L(174, "ssvp_24", {"t_air_24"}),
    L(175, "t_24_init", {"rn_24_canopy", "ssvp_24", "ad_24", "vpd_24", "psy_24", "r_canopy",
         "ra_canopy_init"}),
    L(178, "h_canopy_24_init", {"rn_24_canopy", "t_24_init"}),
    L(182, "disp", {"lai", "z_obst", "land_mask"}),
    L(183, "u_star_24_init", {"u_b_24", "z0m", "disp", "z_b"}),
    L(187, "t_24", {"rn_24_canopy", "ssvp_24", "ad_24", "vpd_24", "psy_24", "r_canopy",
         "h_canopy_24_init", "t_air_k_24", "u_star_24_init", "z0m", "disp", "u_b_24", "z_obs",
         "z_b"}),
    L(188, "t_24_mm", {"t_24", "lh_24"}),
    L(193, "rn_24_soil", {"rn_24", "sf_soil"}),
    L(197, "r_soil", {"se_root", "land_mask"}),
    L(200, "ra_soil_init", {"u_24", "z_obs"}),
    L(203, "u_star_24_soil_init", {"u_b_24", "disp", "z_b"}),
    L(206, "stc", {"se_root"}),
    L(208, "vhc", {"se_root"}),
    L(210, "dd", {"stc", "vhc"}),
    L(211, "g0_bs", {"doy", "dd", "stc", "t_amp", "lat_rad"}),
    L(212, "g0_24", {"g0_bs", "sf_soil", "land_mask", "rn_24_soil", "trans_24", "ra_24", "l_net",
         "rn_slope", "rn_offset"}),
    L(213, "e_24_init", {"rn_24_soil", "g0_24", "ssvp_24", "ad_24", "vpd_24", "psy_24", "r_soil",
         "ra_soil_init"}),
    L(214, "h_soil_24_init", {"rn_24_soil", "e_24_init", "g0_24"}),
    L(218, "e_24", {"rn_24_soil", "g0_24", "ssvp_24", "ad_24", "vpd_24", "psy_24", "r_soil",
         "h_soil_24_init", "t_air_k_24", "u_star_24_soil_init", "disp", "u_b_24", "z_b",
         "z_obs"}),
    L(219, "e_24_mm", {"e_24", "lh_24"}),
    L(220, "aeti_24_mm", {"e_24_mm", "t_24_mm", "int_mm"}),
    L(224, "rn_24_grass", {"ra_24", "l_net"}),
    L(225, "et_ref_24", {"rn_24_grass", "ad_24", "psy_24", "vpd_24", "ssvp_24", "u_24"}),
    L(226, "et_ref_24_mm", {"et_ref_24", "lh_24"})
 >>

\* et_look.main, lines 63-226: only "v2" selects the single-temperature formula,
\* every other selector takes the else branch
EtLookSteps(v) ==
    EtLookDefaults \o EtLookHead \o (IF v = "v2" THEN EtLookV2 ELSE EtLookV3)
      \o EtLookStress \o EtLookRoughness \o EtLookWind \o EtLookFluxes

SeRootDevPre ==
 <<
    A(86, "z0m_full"),
    Z(87, "lst_zone_mean", {"ndvi", "lst"})
 >>

SeRootHead ==
 <<
    P(89, "u_i", {"v2m_i", "u2m_i"}),
    T(93, "doy", {"time"}),
    T(95, "dtime", {"time"}),
    L(96, "sc", {"doy"}),
    L(97, "decl", {"doy"}),
    L(98, "day_angle", {"doy"})
 >>

SeRootDevFilter ==
 <<
    W(101, "t_air_i", {"t_air_i"})
 >>

SeRootBody ==
 <<
    L(103, "p_air_i", {"p_air_i"}),
    L(104, "p_air_0_i", {"p_air_0_i"}),
    L(106, "vc", {"ndvi", "nd_min", "nd_max", "vc_pow"}),
    L(108, "t_air_k_i", {"t_air_i"}),
    L(109, "vp_i", {"qv_i", "p_air_i"}),
    L(110, "ad_moist_i", {"vp_i", "t_air_k_i"}),
    L(111, "ad_dry_i", {"p_air_i", "vp_i", "t_air_k_i"}),
    L(112, "ad_i", {"ad_dry_i", "ad_moist_i"}),
    L(113, "u_b_i_bare", {"u_i", "z0m_bare", "z_obs", "z_b"}),
    L(114, "lon_rad", {"x"}),
    L(115, "lat_rad", {"y"}),
    L(116, "ha", {"sc", "dtime", "lon_rad"}),
    L(118, "ied", {"day_angle"}),
    L(119, "h0", {"lat_rad", "decl", "ha"}),
    L(123, "h0ref", {"h0"}),
    L(124, "m", {"p_air_i", "p_air_0_i", "h0ref"}),
    L(125, "rotm", {"m"}),
    L(126, "Tl2", {"wv_i", "aod550_i", "p_air_i", "p_air_0_i"}),
    L(127, "G0", {"IO", "ied"}),
    L(128, "B0c", {"G0", "Tl2", "m", "rotm", "h0"}),
    L(129, "Bhc", {"B0c", "h0"}),
    L(130, "Dhc", {"G0", "Tl2", "h0"}),
    L(132, "ra_hor_clear_i", {"Bhc", "Dhc"}),
    L(133, "emiss_atm_i", {"vp_i", "t_air_k_i"}),
    L(135, "rn_bare", {"ra_hor_clear_i", "emiss_atm_i", "t_air_k_i", "lst", "r0_bare"}),
    L(138, "rn_full", {"ra_hor_clear_i", "emiss_atm_i", "t_air_k_i", "lst", "r0_full"}),
    L(141, "h_bare", {"rn_bare", "fraction_h_bare"}),
    L(142, "h_full", {"rn_full", "fraction_h_full"}),
    L(143, "u_b_i_full", {"u_i", "z0m_full", "z_obs", "z_b"}),
    L(145, "u_star_i_bare", {"u_b_i_bare", "z0m_bare", "disp_bare", "z_b"}),
    L(146, "u_star_i_full", {"u_b_i_full", "z0m_full", "disp_full", "z_b"}),
    L(147, "L_bare", {"h_bare", "ad_i", "u_star_i_bare", "t_air_k_i"}),
    L(148, "L_full", {"h_full", "ad_i", "u_star_i_full", "t_air_k_i"}),
    L(150, "u_i_soil", {"u_i", "L_bare", "z_obs"}),
    L(151, "ras", {"u_i_soil"}),
    L(152, "raa", {"u_i", "L_bare", "z0m_bare", "disp_bare", "z_obs"}),
    L(153, "rac", {"u_i", "L_full", "z0m_full", "disp_full", "z_obs"}),
    L(155, "t_max_bare", {"ra_hor_clear_i", "emiss_atm_i", "t_air_k_i", "ad_i", "raa", "ras",
         "r0_bare"}),
    L(156, "t_max_full", {"ra_hor_clear_i", "emiss_atm_i", "t_air_k_i", "ad_i", "rac", "r0_full"}),
    L(158, "t_wet_i", {"t_air_i", "qv_i", "p_air_i"}),
    L(159, "lst_max", {"t_max_bare", "t_max_full", "vc"})
 >>

SeRootV2Min ==
 <<
    L(162, "t_wet_k_i", {"t_wet_i"}),
    L(163, "lst_min", {"t_wet_k_i", "t_air_k_i", "vc"})
 >>

SeRootDevMin ==
 <<
    L(165, "t_min_bare", {"ra_hor_clear_i", "emiss_atm_i", "t_air_k_i", "ad_i", "raa", "ras",
         "lst_zone_mean", "r0_bare_wet"}),
    L(166, "t_min_full", {"ra_hor_clear_i", "emiss_atm_i", "t_air_k_i", "ad_i", "rac",
         "lst_zone_mean", "r0_full"}),
    L(167, "lst_min", {"t_min_bare", "t_min_full", "vc"})
 >>

SeRootLast ==
 <<
    L(169, "se_root", {"lst_max", "lst", "lst_min"})
 >>

\* se_root.main, lines 85-169
SeRootSteps(v) ==
    (IF v = "dev" THEN SeRootDevPre ELSE << >>)
      \o SeRootHead
      \o (IF v = "dev" THEN SeRootDevFilter ELSE << >>)
      \o SeRootBody
      \o (IF v = "v2" THEN SeRootV2Min ELSE IF v = "dev" THEN SeRootDevMin ELSE << >>)
      \o SeRootLast

\* selectors explored: each main supports two of them
Versions == {"v2", "v3", "dev"}

Programs == {"et_look", "se_root"}

\* the statements a run of main p with selector v goes through
StepTable ==
    [p \in Programs, v \in Versions |->
        IF p = "et_look" THEN EtLookSteps(v) ELSE SeRootSteps(v)]

Steps(p, v) == StepTable[p, v]

Range(seq) == {seq[i] : i \in 1..Len(seq)}

\* the coordinates of the grid: part of every container, never data variables
Coords == {"x", "y", "time"}

Fields(steps) == UNION {s.r \cup {s.w} : s \in Range(steps)} \ Coords

\* et_look_version : "v2" | "v3"
EtLookVersions == {"v2", "v3"}

\* se_root_version : "v2" | "dev"
SeRootVersions == {"v2", "dev"}

SupportedVersions(p) == IF p = "et_look" THEN EtLookVersions ELSE SeRootVersions

\* the field names main knows: initiate_ds gives each one that is missing a placeholder
VocabularyTable == [p \in Programs |-> UNION {Fields(Steps(p, v)) : v \in Versions}]

Vocabulary(p) == VocabularyTable[p]

\* the fields et_look.main takes from its input: read before any step writes them,
\* or given a constant by main itself
EtLookInputs ==
    {"rs_min", "land_mask", "z_obst_max", "z_oro", "z_obs", "z_b", "u_24", "u2m_24", "v2m_24",
     "doy", "lai", "ra_flat_24", "ra_24", "t_air_24", "t_air_min_24", "t_air_max_24", "vp_24",
     "vpd_slope", "t_opt", "lw_slope", "lw_offset", "p_24", "vc", "r0", "se_root", "z_obst",
     "p_air_24", "t_amp", "rn_slope", "rn_offset"}

\* the fields se_root.main takes from its input
SeRootInputs ==
    {"u_i", "v2m_i", "u2m_i", "z0m_full", "t_air_i", "p_air_i", "p_air_0_i", "ndvi", "nd_min",
     "nd_max", "vc_pow", "qv_i", "z0m_bare", "z_obs", "z_b", "wv_i", "aod550_i", "IO", "lst",
     "r0_bare", "r0_full", "fraction_h_bare", "fraction_h_full", "disp_bare", "disp_full",
     "r0_bare_wet"}

Inputs(p) == IF p = "et_look" THEN EtLookInputs ELSE SeRootInputs

\* inputs main can do without: it writes a constant or computes the field itself
EtLookOptional == {"rs_min", "land_mask", "z_obst_max", "z_oro", "z_obs", "z_b", "u_24"}
SeRootOptional == {"u_i"}

\* the inputs a version of main needs: read by one of its formulas, with no fallback
RequiredInputs(p, v) ==
    ((Inputs(p) \cap UNION {s.r : s \in Range(Steps(p, v))})
        \ (IF p = "et_look" THEN EtLookOptional ELSE SeRootOptional))
        \ (IF p = "se_root" /\ v = "dev" THEN {"z0m_full"} ELSE {})

\* keep_vars of export_vars == "default"
EtLookDefaultVars == {"int_mm", "t_24_mm", "e_24_mm", "aeti_24_mm", "se_root"}
SeRootDefaultVars == {"se_root"}

DefaultVars(p) == IF p = "et_look" THEN EtLookDefaultVars ELSE SeRootDefaultVars

\* the docstring of et_look.main: what "default" stores
EtLookDocumentedDefaultVars ==
    {"int_mm", "t_24_mm", "e_24_mm", "aeti_24_mm", "et_ref_24_mm", "se_root", "biomass_prod",
     "epoch_ends", "epoch_starts"}

\* values of the export_vars argument: a string, a list of names, or anything else
Str(s) == [type |-> "str", str |-> s, names |-> {}]
List(n) == [type |-> "list", str |-> "", names |-> n]

ExportChoices ==
    {Str("default"), Str("all"), Str("se_root"),
     List({}), List({"se_root"}), List({"se_root", "e_24_mm"})}

RECURSIVE SmallSubsets(_, _)
SmallSubsets(U, k) ==
    IF k = 0 THEN {{}}
    ELSE LET prev == SmallSubsets(U, k - 1) IN prev \cup {t \cup {x} : t \in prev, x \in U}

\* input containers explored: nearly complete ones and nearly empty ones
Containers(p) ==
    {Inputs(p) \ m : m \in SmallSubsets(Inputs(p), MaxMissing)}
        \cup SmallSubsets(Inputs(p), MaxPresent)

----------------------------------------------------------------------------
(* The placeholder mechanism (pywapor.general.variables and                 *)
(* pywapor.general.lazifier).                                               *)

\* g.variables.initiate_ds: every known field that is missing becomes a placeholder
initiate_ds(d, vocabulary) ==
    [f \in vocabulary \cup DOMAIN d |-> IF f \in DOMAIN d THEN d[f] ELSE "object"]

\* not ds[f].dtype == object
Present(d, f) == f \in Coords \/ d[f] # "object"

\* g.lazifier.etlook_decorator: a formula runs only when all its inputs are there,
\* otherwise it is skipped and its result is a placeholder
etlook_decorator(d, r) == IF \A f \in r : Present(d, f) THEN "derived" ELSE "object"

----------------------------------------------------------------------------
(* The state after main has been called. *)

OpenedShared(inp, d) == d

\* the container main works on: open_ds reads it from the input file, and a
\* container handed over in memory is copied (copy.deepcopy(...).chunk(...) in
\* et_look.main, .chunk(...) in se_root.main), so nothing an earlier call
\* assigned to its own container d is in it
Opened(inp, d) == [f \in inp |-> "input"]

NoRun == [returned |-> [kind |-> "nothing", vars |-> {}], raised |-> "none", values |-> << >>]

Init ==
    /\ prog \in Programs
    /\ version \in Versions
    /\ export_vars \in ExportChoices
    /\ input_data \in Containers(prog)
    /\ ds = [f \in input_data |-> "input"]
    /\ run = 1
    /\ files = {}
    /\ first = NoRun
    /\ IndexIdle
    /\ SolverIdle
    /\ SatIdle
    /\ CollectIdle
    /\ TrimIdle
    /\ TilesIdle
    /\ RegridIdle
    /\ DownloadIdle
    /\ pc = "begin"
    /\ idx = 1
    /\ log = << >>
    /\ raised = "none"
    /\ returned = [kind |-> "nothing", vars |-> {}]
    /\ file_out = FALSE
    /\ written = {}
    /\ reads = {}
    /\ early = {}
    /\ computed = {}
    /\ substituted = {}

Msg(text, field, value) == [text |-> text, field |-> field, value |-> value]

ModuleBoundAlways(p, v) == TRUE

\* the version selects the formula module: se_root.main binds ETLook only for
\* "v2" and "dev", et_look.main binds it unconditionally
ModuleBound(p, v) == p = "et_look" \/ v \in {"v2", "dev"}

\* main up to initiate_ds: the input is opened, the run is announced, the
\* formulas of the selected module are decorated, the container is initiated
Begin ==
    /\ pc = "begin"
    /\ log' = Append(log, Msg("Running", prog, version))
    /\ IF ModuleBound(prog, version)
       THEN /\ ds' = initiate_ds(ds, Vocabulary(prog))
            /\ pc' = "eval"
            /\ raised' = raised
       ELSE /\ raised' = "UnboundLocalError"
            /\ pc' = "done"
            /\ ds' = ds
    /\ UNCHANGED <<prog, version, export_vars, input_data, idx, returned, file_out,
                   written, reads, early, computed, substituted, run, files, first>>
    /\ UNCHANGED otherVars

\* what one statement does to the container d: the value it assigns to s.w
\* ("keep" when it assigns nothing) and the exception it raises
Outcome(s, d) ==
    CASE s.kind = "subst" ->
            [val |-> IF d[s.w] = "object" THEN s.c ELSE "keep", err |-> "none"]
      [] s.kind = "lazy" ->
            [val |-> etlook_decorator(d, s.r), err |-> "none"]
      [] s.kind = "const" ->
            [val |-> s.c, err |-> "none"]
      [] s.kind = "lazy_if_missing" ->
            [val |-> IF d[s.w] = "object" THEN etlook_decorator(d, s.r \ {s.w}) ELSE "keep",
             err |-> "none"]
      [] s.kind = "if_present" ->
            [val |-> IF \A f \in s.r : Present(d, f) THEN "derived" ELSE "keep",
             err |-> "none"]
      [] s.kind = "direct" ->
            [val |-> "derived", err |-> "none"]
      [] s.kind = "zone_mean" ->
            \* ds["ndvi"].isel(time = 0).shape, then ds["lst"].sel(time = t)
            IF ~Present(d, "ndvi") THEN [val |-> "keep", err |-> "ValueError"]
            ELSE IF ~Present(d, "lst") THEN [val |-> "keep", err |-> "KeyError"]
            ELSE [val |-> "derived", err |-> "none"]
      [] s.kind = "where" ->
            \* a placeholder cannot be compared with -270
            IF \A f \in s.r : Present(d, f)
            THEN [val |-> "derived", err |-> "none"]
            ELSE [val |-> "keep", err |-> "TypeError"]

\* where main goes once the last evaluation step is done: et_look.main drops
\* the placeholders, se_root.main goes straight to the selection
AfterEval(p) == IF p = "et_look" THEN "drop" ELSE "select"

\* one statement of the evaluation sequence
Step(kind) ==
    /\ pc = "eval"
    /\ idx <= Len(Steps(prog, version))
    /\ LET s == Steps(prog, version)[idx]
           o == Outcome(s, ds)
           assigned == o.val # "keep"
           before == written \cup {e.field : e \in substituted}
       IN  /\ s.kind = kind
           /\ ds' = IF assigned THEN [ds EXCEPT ![s.w] = o.val] ELSE ds
           /\ raised' = o.err
           /\ pc' = IF o.err # "none" THEN "done"
                    ELSE IF idx = Len(Steps(prog, version)) THEN AfterEval(prog)
                    ELSE "eval"
           /\ idx' = idx + 1
           /\ log' = IF kind = "subst" /\ assigned
                     THEN Append(log, Msg("Setting", s.w, s.c))
                     ELSE log
           /\ substituted' =
                 IF kind = "subst" /\ assigned
                 THEN substituted \cup {[field |-> s.w, value |-> s.c,
                                         late |-> written # {}, read |-> s.w \in reads]}
                 ELSE substituted
           /\ written' = IF assigned /\ kind # "subst" THEN written \cup {s.w} ELSE written
           /\ early' = IF assigned /\ s.w \notin before /\ s.w \in reads
                       THEN early \cup {s.w}
                       ELSE early
           /\ reads' = reads \cup (s.r \ Coords)
           /\ computed' = IF ~assigned \/ kind \in {"subst", "const"} THEN computed
                          ELSE IF o.val = "object" THEN computed \ {s.w}
                          ELSE computed \cup {s.w}
    /\ UNCHANGED <<prog, version, export_vars, input_data, returned, file_out,
                   run, files, first>>
    /\ UNCHANGED otherVars

Substitute == pc = "eval" /\ Step("subst")
Lazy == pc = "eval" /\ Step("lazy")
Constant == pc = "eval" /\ Step("const")
LazyIfMissing == pc = "eval" /\ Step("lazy_if_missing")
IfPresent == pc = "eval" /\ Step("if_present")
Direct == pc = "eval" /\ Step("direct")
ZoneMean == pc = "eval" /\ Step("zone_mean")
Where == pc = "eval" /\ Step("where")

drop_vars_not_derived(d) == [f \in {g \in DOMAIN d : d[g] = "derived"} |-> d[f]]

\* ds = ds.drop_vars([x for x in ds.variables if ds[x].dtype == object])
drop_vars(d) == [f \in {g \in DOMAIN d : d[g] # "object"} |-> d[f]]

DropPlaceholders ==
    /\ pc = "drop"
    /\ ds' = drop_vars(ds)
    /\ pc' = "select"
    /\ UNCHANGED <<prog, version, export_vars, input_data, idx, log, raised, returned,
                   file_out, written, reads, early, computed, substituted, run, files,
                   first>>
    /\ UNCHANGED otherVars

SelectionNoCheck(p, e, d) == [keep |-> DOMAIN d, err |-> "none"]

SelectionListAsAll(p, e, d) ==
    IF e.type = "str" /\ e.str = "default"
    THEN [keep |-> DefaultVars(p) \cap DOMAIN d, err |-> "none"]
    ELSE IF e.type = "str" /\ e.str # "all"
    THEN [keep |-> {}, err |-> "ValueError"]
    ELSE [keep |-> DOMAIN d, err |-> "none"]

\* the branch on export_vars: the names kept, or the exception raised
\* (ds[keep_vars] raises KeyError for a name the container does not hold)
Selection(p, e, d) ==
    CASE e.type = "str" /\ e.str = "all" ->
            [keep |-> DOMAIN d, err |-> "none"]
      [] e.type = "str" /\ e.str = "default" ->
            IF p = "et_look"
            THEN [keep |-> EtLookDefaultVars \cap DOMAIN d, err |-> "none"]
            ELSE IF SeRootDefaultVars \subseteq DOMAIN d
                 THEN [keep |-> SeRootDefaultVars, err |-> "none"]
                 ELSE [keep |-> {}, err |-> "KeyError"]
      [] e.type = "list" ->
            IF e.names \subseteq DOMAIN d
            THEN [keep |-> e.names, err |-> "none"]
            ELSE [keep |-> {}, err |-> "KeyError"]
      [] OTHER ->
            [keep |-> {}, err |-> "ValueError"]

SelectExport ==
    /\ pc = "select"
    /\ LET sel == Selection(prog, export_vars, ds)
       IN  /\ raised' = sel.err
           /\ ds' = IF sel.err = "none" THEN [f \in sel.keep |-> ds[f]] ELSE ds
           /\ pc' = IF sel.err = "none" THEN "export" ELSE "done"
    /\ UNCHANGED <<prog, version, export_vars, input_data, idx, log, returned, file_out,
                   written, reads, early, computed, substituted, run, files, first>>
    /\ UNCHANGED otherVars

\* save_ds writes the dataset to the output file and returns it reopened;
\* g.variables.fill_attrs, called before it, only sets attributes
save_ds(d) == [kind |-> "Dataset", vars |-> DOMAIN d]

ExportedAlwaysSaves(d) == [out |-> save_ds(d), file |-> TRUE]

\* the end of main: nothing to export gives None, anything else is saved
Exported(d) ==
    IF Cardinality(DOMAIN d) = 0
    THEN [out |-> [kind |-> "None", vars |-> {}], file |-> FALSE]
    ELSE [out |-> save_ds(d), file |-> TRUE]

\* the path of the output file: the input's name with "in" replaced by "out",
\* and with "_" appended when a file of that name is already there
fp_out(on_disk) == IF "out.nc" \in on_disk THEN "out_.nc" ELSE "out.nc"

Export ==
    /\ pc = "export"
    /\ returned' = Exported(ds).out
    /\ file_out' = Exported(ds).file
    /\ files' = IF Exported(ds).file THEN files \cup {fp_out(files)} ELSE files
    /\ log' = IF Exported(ds).file THEN log ELSE Append(log, Msg("No data to export", "", ""))
    /\ pc' = "done"
    /\ UNCHANGED <<prog, version, export_vars, input_data, ds, idx, raised,
                   written, reads, early, computed, substituted, run, first>>
    /\ UNCHANGED otherVars

\* main is called a second time with the arguments of the first call; the
\* output file of the first call is still on disk
Rerun ==
    /\ pc = "done"
    /\ run = 1
    /\ run' = 2
    /\ first' = [returned |-> returned, raised |-> raised,
                 values |-> [f \in returned.vars |-> ds[f]]]
    /\ ds' = Opened(input_data, ds)
    /\ pc' = "begin"
    /\ idx' = 1
    /\ log' = << >>
    /\ raised' = "none"
    /\ returned' = [kind |-> "nothing", vars |-> {}]
    /\ file_out' = FALSE
    /\ written' = {}
    /\ reads' = {}
    /\ early' = {}
    /\ computed' = {}
    /\ substituted' = {}
    /\ UNCHANGED <<prog, version, export_vars, input_data, files>>
    /\ UNCHANGED otherVars

Next ==
    \/ Begin
    \/ Substitute
    \/ Lazy
    \/ Constant
    \/ LazyIfMissing
    \/ IfPresent
    \/ Direct
    \/ ZoneMean
    \/ Where
    \/ DropPlaceholders
    \/ SelectExport
    \/ Export

Spec == Init /\ [][Next]_vars

\* main called twice in a row on the same input
NextRerun ==
    \/ Next
    \/ Rerun

SpecRerun == Init /\ [][NextRerun]_vars

----------------------------------------------------------------------------
(* Properties of et_look.main and se_root.main. *)

Done == pc = "done"

AllStepsDone == ModuleBound(prog, version) /\ idx > Len(Steps(prog, version))

MissingRequired == RequiredInputs(prog, version) \ input_data

Logged(field, value) == Msg("Setting", field, value) \in Range(log)

\* the constants main writes into the container
WrittenConstants == {"100", "1", "3", "0.001"}

\* se_root "dev" works on ndvi, lst and t_air_i outside the decorated formulas
DevPreprocessingFails ==
    prog = "se_root" /\ version = "dev" /\ ~({"ndvi", "lst", "t_air_i"} \subseteq input_data)

\* C1: et_look.main called with an et_look_version other than "v2" and "v3"
\* ends in an error before any field of the container is computed, and runs
\* no formula for it.
C1_UnsupportedEtLookVersionFailsFast ==
    (prog = "et_look" /\ version \notin EtLookVersions /\ pc # "begin") =>
        (pc = "done" /\ raised # "none" /\ written = {} /\ computed = {})

\* C2: se_root.main called with a se_root_version other than "v2" and "dev"
\* ends in an error before any field of the container is computed: the
\* container is still the input, nothing is returned and no file is written.
C2_UnsupportedSeRootVersionFailsFast ==
    (prog = "se_root" /\ version \notin SeRootVersions /\ pc # "begin") =>
        /\ pc = "done"
        /\ raised # "none"
        /\ written = {} /\ computed = {} /\ substituted = {}
        /\ ds = [f \in input_data |-> "input"]
        /\ returned.kind = "nothing"
        /\ ~file_out

C2_Witness ==
    prog = "se_root" /\ version = "v3" /\ pc = "done" /\ raised = "UnboundLocalError"

C4_InvalidExportVarsRaises ==
    (/\ Done
     /\ export_vars.type # "list"
     /\ export_vars \notin {Str("default"), Str("all")}) =>
        /\ raised # "none"
        /\ returned.kind = "nothing"
        /\ ~file_out
        /\ IF AllStepsDone
           THEN raised = "ValueError"
           ELSE \/ ~ModuleBound(prog, version) /\ raised = "UnboundLocalError"
                \/ DevPreprocessingFails

C4_Witness ==
    /\ Done /\ AllStepsDone /\ export_vars = Str("se_root")
    /\ raised = "ValueError" /\ computed # {}

\* C5: in et_look.main a missing rs_min is set to 100 and the substitution is
\* logged, a supplied rs_min is left as it is, and the run with only rs_min
\* missing goes on to return (and save) its dataset.
C5_RsMinDefault ==
    /\ (prog = "et_look" /\ pc \in {"eval", "drop", "select"} /\ idx > 1) =>
          IF "rs_min" \in input_data
          THEN ds["rs_min"] = "input" /\ \A c \in WrittenConstants : ~Logged("rs_min", c)
          ELSE ds["rs_min"] = "100" /\ Logged("rs_min", "100")
    /\ (/\ prog = "et_look" /\ Done
        /\ input_data = EtLookInputs \ {"rs_min"}
        /\ export_vars \in {Str("default"), Str("all")}) =>
          /\ raised = "none" /\ returned.kind = "Dataset" /\ file_out
          /\ Logged("rs_min", "100")

C5_Witness ==
    /\ prog = "et_look" /\ Done /\ input_data = EtLookInputs \ {"rs_min"}
    /\ export_vars = Str("default")
    /\ Logged("rs_min", "100") /\ returned.kind = "Dataset"

C7_EveryConstantIsLogged ==
    prog = "et_look" =>
        \A f \in DOMAIN ds \cap EtLookInputs : ds[f] \in WrittenConstants => Logged(f, ds[f])

\* C8: every field an evaluation step has read is an input of the container
\* or was written by a step before it, and no field is written for the first
\* time after an earlier step has read it.
C8_ReadsFollowWrites ==
    /\ early = {}
    /\ \A f \in reads : f \in Inputs(prog) \/ f \in written

C8_Witness ==
    /\ Done /\ raised = "none" /\ version \in SupportedVersions(prog)
    /\ "u_24" \in reads \cap written
    /\ (reads \cap written) \ Inputs(prog) # {}

\* C9: a returned dataset holds only what was asked for: with "default"
\* nothing outside the default list, with "all" every field the run computed,
\* with a list exactly the names of the list.
C9_OnlyRequestedVariables ==
    returned.kind = "Dataset" =>
        /\ export_vars = Str("default") => returned.vars \subseteq DefaultVars(prog)
        /\ export_vars = Str("all") => computed \subseteq returned.vars
        /\ export_vars.type = "list" => returned.vars = export_vars.names

C9_Witness ==
    /\ returned.kind = "Dataset" /\ prog = "et_look"
    /\ export_vars = List({"se_root", "e_24_mm"})
    /\ returned.vars = {"se_root", "e_24_mm"}
    /\ Cardinality(computed) > 2

\* C10: with export_vars "default" the dataset et_look.main returns holds
\* every variable of the documented default list that the run has computed or
\* was given.
C10_DefaultStoresDocumentedVars ==
    (prog = "et_look" /\ export_vars = Str("default") /\ returned.kind = "Dataset") =>
        \A f \in EtLookDocumentedDefaultVars :
            f \in computed \cup input_data => f \in returned.vars

----------------------------------------------------------------------------
(* The index formulas of pywapor.collect.product.SENTINEL2, at one cell of  *)
(* a scene.  A band value is a reflectance in units of 1/10000 (the scale   *)
(* of scale_data), or NaN where the cell was masked.  A value is a record:  *)
(* a finite ratio num/den, not-a-number, or plus or minus infinity.         *)

\* band values range over NaN and 0 .. MaxBand
MaxBand == 1

\* scenes lacking at most this many of the bands are explored
MaxAbsent == 1

NaN == [k |-> "nan", num |-> 0, den |-> 1]
PosInf == [k |-> "inf", num |-> 1, den |-> 0]
NegInf == [k |-> "ninf", num |-> -1, den |-> 0]
Fin(n) == [k |-> "fin", num |-> n, den |-> 1]

Bands == {"blue", "red", "red_edge_740", "nir", "swir1", "swir2"}

BandValues == {NaN} \cup {Fin(n) : n \in 0..MaxBand}

\* a + b and a - b on band values
Add(a, b) == IF a.k = "nan" \/ b.k = "nan" THEN NaN ELSE Fin(a.num + b.num)
Sub(a, b) == IF a.k = "nan" \/ b.k = "nan" THEN NaN ELSE Fin(a.num - b.num)

\* a / b as numpy divides floats: x/0 is plus or minus infinity, 0/0 is NaN
Div(a, b) ==
    IF a.k = "nan" \/ b.k = "nan" THEN NaN
    ELSE IF b.num = 0
         THEN IF a.num = 0 THEN NaN ELSE IF a.num > 0 THEN PosInf ELSE NegInf
         ELSE [k |-> "fin", num |-> a.num, den |-> b.num]

\* np.isclose(a, 0): within 1e-8 of zero, which a multiple of 1/100000 is only
\* when it is zero; NaN is close to nothing
isclose0(a) == a.k = "fin" /\ a.num = 0

\* xr.where(cond, x, y)
where(cond, x, y) == IF cond THEN x ELSE y

\* ds[name] = value
Put(c, name, value) == [x \in DOMAIN c \cup {name} |-> IF x = name THEN value ELSE c[x]]

\* ds.drop_vars(names)
DropVars(c, names) == [x \in DOMAIN c \ names |-> c[x]]

Calculated(c) == [cell |-> c, warned |-> FALSE]
NotCalculated(c) == [cell |-> c, warned |-> TRUE]

\* calc_normalized_difference(ds, var, bands = [b0, b1])
calc_normalized_difference(c, var, b0, b1) ==
    IF {b0, b1} \subseteq DOMAIN c
    THEN Calculated(Put(c, var, where(isclose0(c[b1]),
                                      Fin(0),
                                      Div(Sub(c[b0], c[b1]), Add(c[b0], c[b1])))))
    ELSE NotCalculated(c)

calc_psri(c, var) ==
    IF {"red", "blue", "red_edge_740"} \subseteq DOMAIN c
    THEN Calculated(Put(c, var, where(isclose0(c["red_edge_740"]),
                                      Fin(0),
                                      Div(Sub(c["red"], c["blue"]), c["red_edge_740"]))))
    ELSE NotCalculated(c)

calc_nmdi(c, var) ==
    IF {"swir1", "swir2", "nir"} \subseteq DOMAIN c
    THEN LET c1 == Put(c, "nominator", Sub(c["swir1"], c["swir2"]))
             r == calc_normalized_difference(c1, var, "nominator", "nir")
         IN  [cell |-> DropVars(r.cell, {"nominator"}), warned |-> r.warned]
    ELSE NotCalculated(c)

calc_bsi(c, var) ==
    IF {"nir", "swir1", "red", "blue"} \subseteq DOMAIN c
    THEN LET c1 == Put(c, "nominator", Add(c["nir"], c["blue"]))
             c2 == Put(c1, "denominator", Add(c["swir1"], c["red"]))
             r == calc_normalized_difference(c2, var, "nominator", "denominator")
         IN  [cell |-> DropVars(r.cell, {"nominator", "denominator"}), warned |-> r.warned]
    ELSE NotCalculated(c)

\* n1 and n2 of calc_vari_red_egde, in units of 1/100000
vari_n1(c) ==
    IF \E b \in {"red_edge_740", "red", "blue"} : c[b].k = "nan" THEN NaN
    ELSE Fin(10 * c["red_edge_740"].num - 17 * c["red"].num + 7 * c["blue"].num)

vari_n2(c) ==
    IF \E b \in {"red_edge_740", "red", "blue"} : c[b].k = "nan" THEN NaN
    ELSE Fin(10 * c["red_edge_740"].num + 23 * c["red"].num - 13 * c["blue"].num)

calc_vari_red_egde(c, var) ==
    IF {"red_edge_740", "blue", "red"} \subseteq DOMAIN c
    THEN Calculated(Put(c, var, where(isclose0(vari_n2(c)), Fin(0), Div(vari_n1(c), vari_n2(c)))))
    ELSE NotCalculated(c)

\* the indices and the post processor of each (default_post_processors)
Indices == {"ndvi", "psri", "nmdi", "bsi", "vari_red_edge"}

post_processor(var, c) ==
    CASE var = "ndvi" -> calc_normalized_difference(c, var, "nir", "red")
      [] var = "psri" -> calc_psri(c, var)
      [] var = "nmdi" -> calc_nmdi(c, var)
      [] var = "bsi" -> calc_bsi(c, var)
      [] var = "vari_red_edge" -> calc_vari_red_egde(c, var)

\* no call of main is under way
MainIdle ==
    /\ prog = "et_look"
    /\ version = "v2"
    /\ export_vars = Str("default")
    /\ input_data = {}
    /\ ds = << >>
    /\ pc = "idle"
    /\ idx = 1
    /\ log = << >>
    /\ raised = "none"
    /\ returned = [kind |-> "nothing", vars |-> {}]
    /\ file_out = FALSE
    /\ written = {}
    /\ reads = {}
    /\ early = {}
    /\ computed = {}
    /\ substituted = {}
    /\ run = 1
    /\ files = {}
    /\ first = NoRun

\* a scene after the bands have been read, masked and scaled
InitIndex ==
    /\ MainIdle
    /\ \E absent \in SmallSubsets(Bands, MaxAbsent) : cell \in [Bands \ absent -> BandValues]
    /\ warned = {}
    /\ SolverIdle
    /\ SatIdle
    /\ CollectIdle
    /\ TrimIdle
    /\ TilesIdle
    /\ RegridIdle
    /\ DownloadIdle

\* one post processor applied to the scene
PostProcess(var) ==
    /\ var \notin DOMAIN cell
    /\ cell' = post_processor(var, cell).cell
    /\ warned' = IF post_processor(var, cell).warned THEN warned \cup {var} ELSE warned
    /\ UNCHANGED exceptIndexVars

CalcNdvi == "ndvi" \notin warned /\ PostProcess("ndvi")
CalcPsri == "psri" \notin warned /\ PostProcess("psri")
CalcNmdi == "nmdi" \notin warned /\ PostProcess("nmdi")
CalcBsi == "bsi" \notin warned /\ PostProcess("bsi")
CalcVariRedEdge == "vari_red_edge" \notin warned /\ PostProcess("vari_red_edge")

NextIndex ==
    \/ CalcNdvi
    \/ CalcPsri
    \/ CalcNmdi
    \/ CalcBsi
    \/ CalcVariRedEdge

SpecIndex == InitIndex /\ [][NextIndex]_vars

\* the bands an index is computed from, and its denominator
IndexInputs(var) ==
    CASE var = "ndvi" -> {"nir", "red"}
      [] var = "psri" -> {"red", "blue", "red_edge_740"}
      [] var = "nmdi" -> {"swir1", "swir2", "nir"}
      [] var = "bsi" -> {"nir", "swir1", "red", "blue"}
      [] var = "vari_red_edge" -> {"red_edge_740", "blue", "red"}

Denominator(var, c) ==
    CASE var = "ndvi" -> Add(c["nir"], c["red"])
      [] var = "psri" -> c["red_edge_740"]
      [] var = "nmdi" -> Add(Sub(c["swir1"], c["swir2"]), c["nir"])
      [] var = "bsi" -> Add(Add(c["nir"], c["blue"]), Add(c["swir1"], c["red"]))
      [] var = "vari_red_edge" -> vari_n2(c)

\* C12: at a cell where the denominator of an index is exactly zero, the
\* index is NaN: not an exception, not infinite, not a finite number.
C12_ZeroDenominatorIsNaN ==
    \A var \in Indices \cap DOMAIN cell :
        isclose0(Denominator(var, cell)) => cell[var].k = "nan"

\* C13: at a cell where one of the bands read by calc_normalized_difference,
\* calc_psri or calc_vari_red_egde is NaN, the index is NaN.
C13_NaNPropagates ==
    \A var \in {"ndvi", "psri", "vari_red_edge"} \cap DOMAIN cell :
        (\E b \in IndexInputs(var) : cell[b].k = "nan") => cell[var].k = "nan"

----------------------------------------------------------------------------
(* Further properties of et_look.main and se_root.main. *)

\* C14: from initialisation up to the output selection no step of main
\* removes a field from the container.
C14_ContainerOnlyGrows ==
    [][(pc \in {"begin", "eval", "drop"}) => (DOMAIN ds \subseteq DOMAIN ds')]_vars

\* C14, amended: while the evaluation steps run the container only grows; the
\* one removal before the output selection is et_look.main dropping the
\* placeholders after the last step, and it removes nothing else.
C14_OnlyPlaceholdersAreDropped ==
    [][/\ pc \in {"begin", "eval"} => DOMAIN ds \subseteq DOMAIN ds'
       /\ pc = "drop" => /\ prog = "et_look"
                         /\ \A f \in DOMAIN ds \ DOMAIN ds' : ds[f] = "object"
                         /\ \A f \in DOMAIN ds' : ds'[f] = ds[f]]_vars

C14_Witness ==
    /\ pc = "select"
    /\ prog = "et_look"
    /\ written # {}
    /\ input_data \subseteq DOMAIN ds
    /\ \E f \in Vocabulary(prog) : f \notin DOMAIN ds
    /\ \E f \in DOMAIN ds : f \notin input_data

\* C15: main returns a dataset only if it holds at least one variable that is
\* not a placeholder, and when every selected variable is a placeholder it
\* returns None and writes no file.
C15_DatasetMeansModelRan ==
    (Done /\ raised = "none") =>
        /\ returned.kind = "Dataset" => \E f \in returned.vars : ds[f] # "object"
        /\ (\A f \in DOMAIN ds : ds[f] = "object") => (returned.kind = "None" /\ ~file_out)

\* the fields written by the canopy (transpiration) solve and by the soil
\* (evaporation) solve of et_look.main
CanopyPath == {"t_24_init", "h_canopy_24_init", "u_star_24_init", "t_24"}
SoilPath == {"e_24_init", "h_soil_24_init", "u_star_24_soil_init", "e_24"}

\* the fields the statements assigning f read
ReadsOf(steps, f) == UNION {s.r : s \in {t \in Range(steps) : t.w = f}}

\* the fields in F and everything they are computed from, directly or through
\* other fields
RECURSIVE Upstream(_, _)
Upstream(steps, F) ==
    LET G == F \cup UNION {ReadsOf(steps, f) : f \in F}
    IN  IF G = F THEN F ELSE Upstream(steps, G)

UpstreamOfSoil == [v \in Versions |-> Upstream(EtLookSteps(v), SoilPath)]
UpstreamOfCanopy == [v \in Versions |-> Upstream(EtLookSteps(v), CanopyPath)]

\* C16: in et_look.main nothing the soil solve is computed from, directly or
\* through other fields, is a field of the canopy solve, and nothing the
\* canopy solve is computed from is a field of the soil solve.
C16_CanopyAndSoilShareNoState ==
    (prog = "et_look" /\ written \cap (CanopyPath \cup SoilPath) # {}) =>
        /\ UpstreamOfSoil[version] \cap CanopyPath = {}
        /\ UpstreamOfCanopy[version] \cap SoilPath = {}

C16_Witness ==
    /\ prog = "et_look"
    /\ pc = "eval"
    /\ CanopyPath \cup SoilPath \subseteq written
    /\ ds["t_24"] = "derived"
    /\ ds["e_24"] = "derived"
    /\ UpstreamOfSoil[version] \cap UpstreamOfCanopy[version] # {}

\* C17: the canopy resistance of et_look.main is computed from the stress
\* multipliers and the container's rs_min: rs_min is among the fields read by
\* the statement that assigns r_canopy_0.
C17_CanopyResistanceReadsRsMin ==
    (prog = "et_look" /\ "r_canopy_0" \in written) =>
        "rs_min" \in ReadsOf(Steps(prog, version), "r_canopy_0")

----------------------------------------------------------------------------
(* The iterative stability solver (ETLook.unstable.transpiration and        *)
(* ETLook.unstable.evaporation), as et_look.main calls it.  Fluxes and      *)
(* velocities are small naturals; the formulas of one iteration are reduced *)
(* to what they depend on.                                                  *)

\* net radiation ranges over 0 .. MaxFlux
MaxFlux == 3

\* the number of iterations the solver runs when the caller passes none
IterH == 3

iter_h_from_container(s, n) == n

\* the iter_h argument of the call for surface s, n being the container's
\* iter_h: et_look.main passes none, so the solver's own count applies
iter_h_argument(s, n) == IterH

\* the solver is called: the neutral estimates are its arguments
InitSolver ==
    /\ MainIdle
    /\ IndexIdle
    /\ SatIdle
    /\ CollectIdle
    /\ TrimIdle
    /\ TilesIdle
    /\ RegridIdle
    /\ DownloadIdle
    /\ surface \in {"canopy", "soil"}
    /\ \E rn \in 0..MaxFlux, u \in 1..2, n \in 0..(IterH + 1) :
         \E f \in 0..rn :
            given = [rn |-> rn, flux_init |-> f, u_star_init |-> u,
                     iter_h |-> iter_h_argument(surface, n)]
    /\ spc = "call"
    /\ conv = NoConv

\* (a) the Monin-Obukhov length from the sensible heat flux h and the friction
\* velocity u; 0 stands for the neutral limit, returned when h is near zero
stability_length(h, u) == IF h = 0 THEN 0 ELSE 1 + ((u * u * u) \div h)

\* (b) the friction velocity under the stability correction
friction_velocity(u_init, len) == IF len = 0 THEN u_init ELSE u_init + 1

\* (c) the flux under the corrected resistance, never above the net radiation
corrected_flux(rn, flux_init, len) ==
    IF len = 0 \/ flux_init + 1 > rn THEN flux_init ELSE flux_init + 1

\* solver entry: the convergence state is created
SolverEnter ==
    /\ spc = "call"
    /\ conv' = [iteration |-> 0, h |-> given.rn - given.flux_init,
                u_star |-> given.u_star_init, L |-> 0, flux |-> given.flux_init]
    /\ spc' = "loop"
    /\ UNCHANGED <<surface, given>>
    /\ UNCHANGED exceptSolverVars

\* one iteration
Iterate ==
    /\ spc = "loop"
    /\ conv.iteration < given.iter_h
    /\ LET len == stability_length(conv.h, conv.u_star)
           flux == corrected_flux(given.rn, given.flux_init, len)
       IN  conv' = [iteration |-> conv.iteration + 1, h |-> given.rn - flux,
                    u_star |-> friction_velocity(given.u_star_init, len),
                    L |-> len, flux |-> flux]
    /\ UNCHANGED <<surface, given, spc>>
    /\ UNCHANGED exceptSolverVars

\* the loop ends and the flux is returned
SolverExit ==
    /\ spc = "loop"
    /\ ~(conv.iteration < given.iter_h)
    /\ spc' = "done"
    /\ UNCHANGED <<surface, given, conv>>
    /\ UNCHANGED exceptSolverVars

NextSolver ==
    \/ SolverEnter
    \/ Iterate
    \/ SolverExit

SpecSolver == InitSolver /\ [][NextSolver]_vars

\* the solver is a loop of a running program: it keeps taking steps
SpecSolverFair == SpecSolver /\ WF_vars(NextSolver)

----------------------------------------------------------------------------
(* The saturation index se_root at one cell, as se_root.main computes it    *)
(* from lst_max, the observed lst and lst_min.  A temperature is NaN or a   *)
(* whole number of kelvin above some base.                                  *)

\* temperatures range over NaN and 0 .. MaxTemp
MaxTemp == 3

Temperatures == {NaN} \cup {Fin(n) : n \in 0..MaxTemp}

\* a finite value with a positive denominator
Ratio(n, d) == IF d < 0 THEN [k |-> "fin", num |-> -n, den |-> -d]
               ELSE [k |-> "fin", num |-> n, den |-> d]

\* x limited to [0, 1]; NaN stays NaN
clamp(x) ==
    CASE x.k = "nan" -> NaN
      [] x.k = "inf" -> Fin(1)
      [] x.k = "ninf" -> Fin(0)
      [] OTHER ->
            LET r == Ratio(x.num, x.den)
            IN  IF r.num < 0 THEN Fin(0) ELSE IF r.num > r.den THEN Fin(1) ELSE r

\* ETLook.soil_moisture.soil_moisture_from_maximum_temperature: the position of
\* lst between lst_max and lst_min, limited to [0, 1], undefined where the two
\* limits are equal
soil_moisture_from_maximum_temperature(lst_max, lst, lst_min) ==
    IF lst_max.k = "nan" \/ lst.k = "nan" \/ lst_min.k = "nan" THEN NaN
    ELSE IF lst_max.num = lst_min.num THEN NaN
    ELSE clamp(Div(Sub(lst_max, lst), Sub(lst_max, lst_min)))

se_root_lst_first(t) == soil_moisture_from_maximum_temperature(t.lst, t.lst_max, t.lst_min)

\* ds["se_root"] = ...soil_moisture_from_maximum_temperature(ds["lst_max"], ds["lst"], ds["lst_min"])
se_root_of(t) == soil_moisture_from_maximum_temperature(t.lst_max, t.lst, t.lst_min)

\* a cell after lst_max and lst_min have been computed
InitSat ==
    /\ MainIdle
    /\ IndexIdle
    /\ SolverIdle
    /\ CollectIdle
    /\ TrimIdle
    /\ TilesIdle
    /\ RegridIdle
    /\ DownloadIdle
    /\ temps \in [{"lst_max", "lst", "lst_min"} -> Temperatures]
    /\ sat = [k |-> "unset", num |-> 0, den |-> 1]

\* the last evaluation step of se_root.main
SoilMoisture ==
    /\ sat.k = "unset"
    /\ sat' = se_root_of(temps)
    /\ UNCHANGED temps
    /\ UNCHANGED exceptSatVars

NextSat ==
    \/ SoilMoisture

SpecSat == InitSat /\ [][NextSat]_vars

\* x is a number in [0, 1]
InUnit(x) == x.k = "fin" /\ x.den > 0 /\ 0 <= x.num /\ x.num <= x.den

AllFinite(t) == \A n \in DOMAIN t : t[n].k = "fin"

----------------------------------------------------------------------------
(* pywapor.collect.downloader: collect_sources, reverse_sources and         *)
(* trim_sources.  A product stands for a (source, product_name) pair; the   *)
(* sources dictionary maps a variable to the list of its products, and its  *)
(* variables are iterated in the order of VarOrder.                         *)

\* a variable lists at most this many products
MaxProducts == 2

\* a downloader is called at most this many times
MaxCalls == 3

\* max_attempts = 2
max_attempts == 2

VarOrder == <<"ndvi", "lst">>

Products == {"MODIS.MOD13Q1", "SENTINEL2.S2MSI2A"}

ProductLists == UNION {[1..n -> Products] : n \in 1..MaxProducts}

\* the sources dictionaries explored
SourceConfigs ==
    UNION {[vs -> ProductLists] : vs \in SUBSET Range(VarOrder) \ {{}}}

Keys(rs) == {rs[i].key : i \in 1..Len(rs)}

\* reverse_sources, the loop body for one variable: var is appended to the
\* entry of each of its products, a new entry being added at the end
RECURSIVE reverse_one(_, _, _)
reverse_one(rs, var, prods) ==
    IF prods = << >> THEN rs
    ELSE LET key == Head(prods)
             rs1 == IF key \in Keys(rs)
                    THEN [i \in 1..Len(rs) |->
                            IF rs[i].key = key
                            THEN [rs[i] EXCEPT !.vars = Append(@, var)]
                            ELSE rs[i]]
                    ELSE Append(rs, [key |-> key, vars |-> <<var>>])
         IN  reverse_one(rs1, var, Tail(prods))

RECURSIVE reverse_from(_, _, _)
reverse_from(rs, src, order) ==
    IF order = << >> THEN rs
    ELSE reverse_from(IF Head(order) \in DOMAIN src
                      THEN reverse_one(rs, Head(order), src[Head(order)])
                      ELSE rs,
                      src, Tail(order))

\* reverse_sources(sources): the products in the order met, each with the list
\* of the variables that name it
reverse_sources(src) == reverse_from(<< >>, src, VarOrder)

RemoveAt(seq, i) == SubSeq(seq, 1, i - 1) \o SubSeq(seq, i + 1, Len(seq))

Trimmed(src) == [sources |-> src, err |-> "none"]
TrimFailed(src, e) == [sources |-> src, err |-> e]

\* trim_sources, the first inner loop: the product is popped from the list of
\* each of its variables
RECURSIVE trim_product(_, _, _)
trim_product(src, key, varis) ==
    IF varis = << >> THEN Trimmed(src)
    ELSE LET var == Head(varis)
         IN  IF var \notin DOMAIN src THEN TrimFailed(src, "KeyError")
             ELSE LET idxs == {i \in 1..Len(src[var]) : src[var][i] = key}
                  IN  IF Cardinality(idxs) = 0
                      THEN trim_product(src, key, Tail(varis))
                      ELSE IF Cardinality(idxs) = 1
                      THEN trim_product([src EXCEPT ![var] = RemoveAt(@, CHOOSE i \in idxs : TRUE)],
                                        key, Tail(varis))
                      ELSE TrimFailed(src, "ValueError")

\* trim_sources, the second inner loop: a variable left without products is
\* popped from sources
RECURSIVE pop_empty(_, _)
pop_empty(src, varis) ==
    IF varis = << >> THEN Trimmed(src)
    ELSE LET var == Head(varis)
         IN  IF var \notin DOMAIN src THEN TrimFailed(src, "KeyError")
             ELSE pop_empty(IF src[var] = << >>
                            THEN [v \in DOMAIN src \ {var} |-> src[v]]
                            ELSE src,
                            Tail(varis))

\* trim_sources(reversed_sources, sources)
RECURSIVE trim_sources(_, _)
trim_sources(rs, src) ==
    IF rs = << >> THEN Trimmed(src)
    ELSE LET a == trim_product(src, Head(rs).key, Head(rs).vars)
             b == pop_empty(a.sources, Head(rs).vars)
         IN  IF a.err # "none" THEN a
             ELSE IF b.err # "none" THEN b
             ELSE trim_sources(Tail(rs), b.sources)

\* {k: v for k, v in rs.items() if keep[k]}
Filter(rs, keep) == SelectSeq(rs, LAMBDA e : keep[e.key])

\* collect_sources is called
InitCollect ==
    /\ MainIdle
    /\ IndexIdle
    /\ SolverIdle
    /\ SatIdle
    /\ TrimIdle
    /\ TilesIdle
    /\ RegridIdle
    /\ DownloadIdle
    /\ sources \in SourceConfigs
    /\ reversed_sources = << >>
    /\ attempts = << >>
    /\ dss = {}
    /\ cpc = "start"
    /\ queue = << >>
    /\ calls = [k \in Products |-> 0]
    /\ succeeded = {}

\* lines 31-36
CollectBegin ==
    /\ cpc = "start"
    /\ reversed_sources' = reverse_sources(sources)
    /\ attempts' = [k \in Keys(reverse_sources(sources)) |-> 0]
    /\ dss' = {}
    /\ cpc' = "while"
    /\ UNCHANGED <<sources, queue, calls, succeeded>>
    /\ UNCHANGED exceptCollectVars

\* the test of the while loop
Pending == \E k \in DOMAIN attempts : ~(attempts[k] >= max_attempts)

\* a pass begins: the products with attempts left are those of this pass
PassBegin ==
    /\ cpc = "while"
    /\ Pending
    /\ reversed_sources' = Filter(reversed_sources, [k \in DOMAIN attempts |-> attempts[k] < max_attempts])
    /\ queue' = Filter(reversed_sources, [k \in DOMAIN attempts |-> attempts[k] < max_attempts])
    /\ cpc' = "for"
    /\ UNCHANGED <<sources, attempts, dss, calls, succeeded>>
    /\ UNCHANGED exceptCollectVars

\* a loop that would try a failed product again at once
ContinueRetryingAtOnce(k) ==
    /\ queue' = IF attempts'[k] < max_attempts THEN queue ELSE Tail(queue)
    /\ cpc' = IF queue' = << >> THEN "while" ELSE "for"
    /\ calls' = [calls EXCEPT ![k] = @ + 1]
    /\ UNCHANGED <<sources, reversed_sources>>
    /\ UNCHANGED exceptCollectVars

\* the end of one iteration of the for loop: log.pop() and continue, which
\* also discards an exception raised in the except or the else clause
Continue(k) ==
    /\ queue' = Tail(queue)
    /\ cpc' = IF Tail(queue) = << >> THEN "while" ELSE "for"
    /\ calls' = [calls EXCEPT ![k] = @ + 1]
    /\ UNCHANGED <<sources, reversed_sources>>
    /\ UNCHANGED exceptCollectVars

Trying(k) == cpc = "for" /\ queue # << >> /\ k = Head(queue).key /\ calls[k] < MaxCalls

\* the downloader returns a dataset
DownloadReturns ==
    \E k \in Products :
        /\ Trying(k)
        /\ attempts' = [attempts EXCEPT ![k] = @ + max_attempts * 10]
        /\ dss' = dss \cup {k}
        /\ succeeded' = succeeded \cup {k}
        /\ Continue(k)

\* the downloader returns something the else clause fails on: None, or a
\* dataset whose time axis is empty (x.time.values[0])
DownloadReturnsUnusable ==
    \E k \in Products :
        /\ Trying(k)
        /\ attempts' = [attempts EXCEPT ![k] = @ + max_attempts * 10]
        /\ succeeded' = succeeded \cup {k}
        /\ UNCHANGED dss
        /\ Continue(k)

\* the downloader raises an Exception whose first argument is a string
DownloadRaises ==
    \E k \in Products :
        /\ Trying(k)
        /\ attempts' = [attempts EXCEPT ![k] = @ + 1]
        /\ UNCHANGED <<dss, succeeded>>
        /\ Continue(k)

\* the downloader raises an exception the except clause fails on (no
\* arguments, or a first argument that is no string, as in e.args[0] of an
\* AssertionError() or of a requests ConnectionError), or one that is no
\* Exception: the attempt is not counted
DownloadRaisesUncounted ==
    \E k \in Products :
        /\ Trying(k)
        /\ UNCHANGED <<attempts, dss, succeeded>>
        /\ Continue(k)

\* lines 95-104: the loop has ended, sources is trimmed and returned
CollectReturn ==
    /\ cpc = "while"
    /\ ~Pending
    /\ LET failed == Filter(reversed_sources, [k \in DOMAIN attempts |-> attempts[k] <= max_attempts])
           t == trim_sources(failed, sources)
       IN  /\ reversed_sources' = failed
           /\ sources' = t.sources
           /\ cpc' = IF t.err = "none" THEN "returned" ELSE "raised"
    /\ UNCHANGED <<attempts, dss, queue, calls, succeeded>>
    /\ UNCHANGED exceptCollectVars

NextCollect ==
    \/ CollectBegin
    \/ PassBegin
    \/ DownloadReturns
    \/ DownloadReturnsUnusable
    \/ DownloadRaises
    \/ DownloadRaisesUncounted
    \/ CollectReturn

SpecCollect == InitCollect /\ [][NextCollect]_vars

\* the products the sources dictionary lists
Listed(src) == UNION {Range(src[v]) : v \in DOMAIN src}

\* C20: when collect_sources returns, dss has an entry for exactly the
\* products whose download succeeded, and a product is still listed in the
\* returned sources exactly when it has an entry in dss.
C20_SourcesMatchCollected ==
    cpc = "returned" =>
        /\ dss = succeeded
        /\ Listed(sources) = dss

\* C21: the downloader of a product is called at most max_attempts times,
\* whatever it raises or returns (so that collect_sources terminates).
C21_AtMostMaxAttempts ==
    \A k \in Products : calls[k] <= max_attempts

\* the product the for loop is about to try
NextTried == IF cpc = "for" /\ queue # << >> THEN {Head(queue).key} ELSE {}

\* C22: when a product is about to be tried for the n-th time, every other
\* product of the pass has been tried at least n - 1 times; in particular no
\* product gets its second attempt before every other product has had its
\* first.
C22_RetryAfterOthers ==
    \A k \in NextTried :
        /\ \A j \in Keys(reversed_sources) : calls[j] >= calls[k]
        /\ calls[k] >= 1 => \A j \in DOMAIN attempts : calls[j] >= 1

C22_Witness ==
    \E k \in NextTried :
        /\ calls[k] = 1
        /\ attempts[k] = 1
        /\ \E j \in Keys(reversed_sources) \ {k} : calls[j] >= 1

\* C23: a product whose download has returned is not downloaded again, and
\* its dataset is in dss from then on.
C23_DownloadedOnceAndKept ==
    /\ succeeded \subseteq dss
    /\ \A k \in succeeded : k \notin NextTried

----------------------------------------------------------------------------
(* trim_sources called on its own, one product of reversed_sources at a     *)
(* time.  reversed_sources is what collect_sources can pass: some of the    *)
(* entries of reverse_sources(sources), in their order.                     *)

\* the entries of rs whose product is in keep
Kept(rs, keep) == Filter(rs, [k \in Keys(rs) |-> k \in keep])

\* trim_sources is called
InitTrim ==
    /\ MainIdle
    /\ IndexIdle
    /\ SolverIdle
    /\ SatIdle
    /\ CollectIdle
    /\ TilesIdle
    /\ RegridIdle
    /\ DownloadIdle
    /\ \E src \in SourceConfigs :
         \E keep \in SUBSET Keys(reverse_sources(src)) :
            /\ trim_given = [reversed_sources |-> Kept(reverse_sources(src), keep),
                             sources |-> src]
            /\ trim_now = src
            /\ trim_rest = Kept(reverse_sources(src), keep)
    /\ tpc = "loop"

\* lines 155-170: one iteration of the outer loop; both inner loops change
\* sources in place, so what was popped before an exception stays popped
TrimOne ==
    /\ tpc = "loop"
    /\ trim_rest # << >>
    /\ LET a == trim_product(trim_now, Head(trim_rest).key, Head(trim_rest).vars)
           b == pop_empty(a.sources, Head(trim_rest).vars)
       IN  IF a.err # "none"
           THEN trim_now' = a.sources /\ tpc' = a.err
           ELSE trim_now' = b.sources /\ tpc' = IF b.err # "none" THEN b.err ELSE "loop"
    /\ trim_rest' = Tail(trim_rest)
    /\ UNCHANGED trim_given
    /\ UNCHANGED exceptTrimVars

\* line 171
TrimReturn ==
    /\ tpc = "loop"
    /\ trim_rest = << >>
    /\ tpc' = "returned"
    /\ UNCHANGED <<trim_given, trim_now, trim_rest>>
    /\ UNCHANGED exceptTrimVars

NextTrim ==
    \/ TrimOne
    \/ TrimReturn

SpecTrim == InitTrim /\ [][NextTrim]_vars

\* the variable lists a product more than once
ListsTwice(src, v) ==
    \E i, j \in DOMAIN src[v] : i # j /\ src[v][i] = src[v][j]

\* every product of reversed_sources is gone from the list of every variable
\* it serves
TrimRemovesProducts ==
    LET rs == trim_given.reversed_sources
    IN  \A i \in DOMAIN rs : \A v \in Range(rs[i].vars) :
            v \in DOMAIN trim_now => rs[i].key \notin Range(trim_now[v])

\* a variable is gone exactly when all its products were to be removed
TrimRemovesEmptyVariables ==
    \A v \in DOMAIN trim_given.sources :
        v \notin DOMAIN trim_now <=>
            Range(trim_given.sources[v]) \subseteq Keys(trim_given.reversed_sources)

\* the products that stay keep their place
TrimKeepsTheRest ==
    /\ DOMAIN trim_now \subseteq DOMAIN trim_given.sources
    /\ \A v \in DOMAIN trim_now :
            trim_now[v] = SelectSeq(trim_given.sources[v],
                                    LAMBDA q : q \notin Keys(trim_given.reversed_sources))

\* C24: when trim_sources returns, every product of reversed_sources is
\* removed from the list of every variable it serves, a variable is removed
\* exactly when its list has become empty and everything else is unchanged;
\* and when a variable lists a product more than once the call does not
\* return but raises ValueError.
C24_TrimSources ==
    /\ tpc = "returned" =>
            /\ TrimRemovesProducts
            /\ TrimRemovesEmptyVariables
            /\ TrimKeepsTheRest
    /\ (tpc # "loop" /\ \E v \in DOMAIN trim_given.sources : ListsTwice(trim_given.sources, v))
            => tpc = "ValueError"

----------------------------------------------------------------------------
(* check_tiles of pywapor.collect.product.VIIRSL1.  A tile stands for one   *)
(* [year, doy, time] entry; the geolocation file of a tile either has fewer *)
(* than 100 pixels inside the buffered area of interest or not.             *)

\* lists of at most this many tiles are explored
MaxTiles == 3

Tiles == 1..MaxTiles

\* the lists of distinct tiles, in any order
TileLists ==
    {l \in UNION {[1..n -> Tiles] : n \in 0..MaxTiles} :
        \A i, j \in DOMAIN l : i # j => l[i] # l[j]}

\* list.remove(x): the first entry equal to x is removed
Remove(l, x) ==
    IF \E i \in DOMAIN l : l[i] = x
    THEN RemoveAt(l, CHOOSE i \in DOMAIN l : l[i] = x /\ \A j \in 1..(i - 1) : l[j] # x)
    ELSE l

\* check_tiles is called
InitTiles ==
    /\ MainIdle
    /\ IndexIdle
    /\ SolverIdle
    /\ SatIdle
    /\ CollectIdle
    /\ TrimIdle
    /\ RegridIdle
    /\ DownloadIdle
    /\ tiles_given \in TileLists
    /\ year_doy_time = tiles_given
    /\ dropped = << >>
    /\ pos = 1
    /\ few_pixels \in SUBSET Tiles
    /\ one_file \in SUBSET Tiles
    /\ kpc = "loop"

\* lines 287-307: one iteration of the for loop, which iterates over the
\* list it removes from: the iterator takes the entry at its index in the
\* list as it is now
CheckTile ==
    /\ kpc = "loop"
    /\ pos <= Len(year_doy_time)
    /\ LET tile == year_doy_time[pos]
       IN  IF tile \notin one_file
           THEN /\ kpc' = "AssertionError"
                /\ UNCHANGED <<year_doy_time, dropped, pos>>
           ELSE /\ year_doy_time' = IF tile \in few_pixels
                                     THEN Remove(year_doy_time, tile)
                                     ELSE year_doy_time
                /\ dropped' = IF tile \in few_pixels THEN Append(dropped, tile) ELSE dropped
                /\ pos' = pos + 1
                /\ UNCHANGED kpc
    /\ UNCHANGED <<tiles_given, few_pixels, one_file>>
    /\ UNCHANGED exceptTilesVars

\* line 309: the iterator is past the end of the list
TilesReturn ==
    /\ kpc = "loop"
    /\ pos > Len(year_doy_time)
    /\ kpc' = "returned"
    /\ UNCHANGED <<tiles_given, year_doy_time, dropped, pos, few_pixels, one_file>>
    /\ UNCHANGED exceptTilesVars

NextTiles ==
    \/ CheckTile
    \/ TilesReturn

SpecTiles == InitTiles /\ [][NextTiles]_vars

\* C25: when check_tiles returns, the two lists partition the list passed:
\* the dropped list holds exactly the tiles with fewer than 100 pixels inside
\* the buffered area, the first list exactly the others.
C25_TilesPartitioned ==
    kpc = "returned" =>
        /\ dropped = SelectSeq(tiles_given, LAMBDA t : t \in few_pixels)
        /\ year_doy_time = SelectSeq(tiles_given, LAMBDA t : t \notin few_pixels)

----------------------------------------------------------------------------
(* The inventory of scenes regrid_VNP makes (lines 32-47).  A VNP02IMG file *)
(* stands for its timestamp; workdir says how many VNP03IMG files and how   *)
(* many cloud-mask files match that timestamp.                              *)

\* at most this many VNP02IMG files are in workdir
MaxScenes == 2

\* at most this many VNP03IMG or cloud-mask files match one timestamp
MaxFiles == 2

Timestamps == 1..MaxScenes

\* glob.glob(...VNP02IMG.A*.nc): the files found, in any order
Globs02 ==
    {l \in UNION {[1..n -> Timestamps] : n \in 0..MaxScenes} :
        \A i, j \in DOMAIN l : i # j => l[i] # l[j]}

\* regrid_VNP is called
InitRegrid ==
    /\ MainIdle
    /\ IndexIdle
    /\ SolverIdle
    /\ SatIdle
    /\ CollectIdle
    /\ TrimIdle
    /\ TilesIdle
    /\ DownloadIdle
    /\ workdir \in [Timestamps -> [ncs03 : 0..MaxFiles, ncs_cloud : 0..MaxFiles]]
    /\ ncs02 \in Globs02
    /\ scenes = {}
    /\ rpc = "loop"

\* line 41: the test that skips a scene
skipped(found) == found.ncs03 # 1 /\ found.ncs_cloud # 1

\* lines 44-45: ncs03[0] and ncs_cloud[0] need a file each
indexable(found) == found.ncs03 >= 1 /\ found.ncs_cloud >= 1

\* lines 37-47: one iteration of the loop over the VNP02IMG files
ScanScene ==
    /\ rpc = "loop"
    /\ ncs02 # << >>
    /\ LET found == workdir[Head(ncs02)]
       IN  IF skipped(found)
           THEN UNCHANGED <<scenes, rpc>>
           ELSE IF indexable(found)
           THEN scenes' = scenes \cup {Head(ncs02)} /\ UNCHANGED rpc
           ELSE rpc' = "IndexError" /\ UNCHANGED scenes
    /\ ncs02' = Tail(ncs02)
    /\ UNCHANGED workdir
    /\ UNCHANGED exceptRegridVars

\* the loop has ended: the inventory is made
InventoryMade ==
    /\ rpc = "loop"
    /\ ncs02 = << >>
    /\ rpc' = "done"
    /\ UNCHANGED <<workdir, ncs02, scenes>>
    /\ UNCHANGED exceptRegridVars

NextRegrid ==
    \/ ScanScene
    \/ InventoryMade

SpecRegrid == InitRegrid /\ [][NextRegrid]_vars

\* exactly one VNP03IMG file and exactly one cloud-mask file
complete(found) == found.ncs03 = 1 /\ found.ncs_cloud = 1

\* C26: only complete scenes are in the inventory, and no error is raised
\* for an incomplete scene.
C26_OnlyCompleteScenes ==
    /\ \A t \in scenes : complete(workdir[t])
    /\ rpc # "IndexError"

----------------------------------------------------------------------------
(* download of the product downloaders MERRA2, STATICS, SENTINEL2 and       *)
(* VIIRSL1, called repeatedly on one folder with one product_name.  A       *)
(* product file stands for the set of its data variables.  What is fetched  *)
(* when no usable file is found is made by the protocol modules: a dataset  *)
(* with at least the requested variables, which replaces the product file.  *)

\* download is called at most this many times
MaxDownloads == 3

Downloaders == {"MERRA2", "STATICS", "SENTINEL2", "VIIRSL1"}

\* some of the variables default_vars of each downloader knows
ProductVars ==
    [MERRA2 |-> {"t_air", "u2m"},
     STATICS |-> {"z_oro", "rs_min"},
     SENTINEL2 |-> {"ndvi", "red"},
     VIIRSL1 |-> {"bt"}]

NoFile == [exists |-> FALSE, data_vars |-> {}]

File(vs) == [exists |-> TRUE, data_vars |-> vs]

\* os.path.isfile(fn)
isfile(f) == f.exists

\* np.all([x in ds.data_vars for x in req_vars])
has_req_vars(f, req_vars) == req_vars \subseteq f.data_vars

\* the datasets a fetch for req_vars can make
Fetched(p, req_vars) == {vs \in SUBSET ProductVars[p] : req_vars \subseteq vs}

\* the call returns the existing file
ReturnFile(p, req_vars) ==
    /\ last' = [product |-> p, req_vars |-> req_vars, found |-> folder[p],
                fetched |-> FALSE, data_vars |-> folder[p].data_vars]
    /\ UNCHANGED folder

\* the call fetches, writes the product file and returns it
Fetch(p, req_vars) ==
    \E vs \in Fetched(p, req_vars) :
        /\ last' = [product |-> p, req_vars |-> req_vars, found |-> folder[p],
                    fetched |-> TRUE, data_vars |-> vs]
        /\ folder' = [folder EXCEPT ![p] = File(vs)]

\* the arguments of a call: a non-empty req_vars
Requests(p) == SUBSET ProductVars[p] \ {{}}

Called ==
    /\ downloads < MaxDownloads
    /\ downloads' = downloads + 1
    /\ UNCHANGED exceptDownloadVars

InitDownload ==
    /\ MainIdle
    /\ IndexIdle
    /\ SolverIdle
    /\ SatIdle
    /\ CollectIdle
    /\ TrimIdle
    /\ TilesIdle
    /\ RegridIdle
    /\ folder = [p \in Downloaders |-> NoFile]
    /\ last = [product |-> "none", req_vars |-> {}, found |-> NoFile,
               fetched |-> FALSE, data_vars |-> {}]
    /\ downloads = 0

\* MERRA2.download, lines 105-136
DownloadMERRA2 ==
    /\ Called
    /\ \E req_vars \in Requests("MERRA2") :
         IF isfile(folder["MERRA2"])
         THEN ReturnFile("MERRA2", req_vars)
         ELSE Fetch("MERRA2", req_vars)

\* STATICS.download, lines 95-125
DownloadSTATICS ==
    /\ Called
    /\ \E req_vars \in Requests("STATICS") :
         IF isfile(folder["STATICS"]) /\ has_req_vars(folder["STATICS"], req_vars)
         THEN ReturnFile("STATICS", req_vars)
         ELSE Fetch("STATICS", req_vars)

\* SENTINEL2.download, lines 185-227
DownloadSENTINEL2 ==
    /\ Called
    /\ \E req_vars \in Requests("SENTINEL2") :
         IF isfile(folder["SENTINEL2"]) /\ has_req_vars(folder["SENTINEL2"], req_vars)
         THEN ReturnFile("SENTINEL2", req_vars)
         ELSE Fetch("SENTINEL2", req_vars)

\* VIIRSL1.download, lines 379-454
DownloadVIIRSL1 ==
    /\ Called
    /\ \E req_vars \in Requests("VIIRSL1") :
         IF isfile(folder["VIIRSL1"]) /\ has_req_vars(folder["VIIRSL1"], req_vars)
         THEN ReturnFile("VIIRSL1", req_vars)
         ELSE Fetch("VIIRSL1", req_vars)

NextDownload ==
    \/ DownloadMERRA2
    \/ DownloadSTATICS
    \/ DownloadSENTINEL2
    \/ DownloadVIIRSL1

SpecDownload == InitDownload /\ [][NextDownload]_vars

\* C27: a call of download returns the existing product file without
\* fetching only if the file holds every variable of req_vars, and the
\* dataset returned holds every variable of req_vars.
C27_CachedFileHasReqVars ==
    last.product \in Downloaders =>
        /\ ~last.fetched => (isfile(last.found) /\ has_req_vars(last.found, last.req_vars))
        /\ last.req_vars \subseteq last.data_vars

====
